---- MODULE Spec2Model ----
(***************************************************************************)
(* Ordered middleware pipeline of smithy-go: the generic Handler /         *)
(* Middleware decorator chain (middleware/middleware.go), the Build step   *)
(* (middleware/step_build.go) and the ordered identifier registry the      *)
(* step owns (orderedIDs, whose source is not part of this slice and is    *)
(* modelled from its written contract).                                    *)
(***************************************************************************)
EXTENDS Integers, Sequences, FiniteSets, TLC

(* ------------------------------------------------------------------ *)
(* Bounds of the model                                                  *)
(* ------------------------------------------------------------------ *)

\* number of distinct middleware identifiers offered to the registry
NumIDs == 3

\* number of distinguishable middleware instances sharing the first identifier
NumVariants == 2

IDs == 1..NumIDs

NoID == 0

\* a middleware instance: its ID() and a tag telling instances apart; one
\* instance per identifier, and NumVariants of them for identifier 1
Entries == [id : IDs, v : {1}] \cup [id : {1}, v : 1..NumVariants]

NoEntry == [id |-> NoID, v |-> 0]

Positions == {"Before", "After"}

NoErr == "nil"

(* ------------------------------------------------------------------ *)
(* State                                                                *)
(* ------------------------------------------------------------------ *)

VARIABLES
    order,   \* registry: the identifiers in sequence order
    items,   \* registry: identifier -> entry, defined on the present ids
    last,    \* the most recent registry call: arguments, result, order before
    ctl,     \* the invocation's control: idle, calling, running, returning, done
    stack,   \* the invocation's call stack: the activations awaiting a return
    trace,   \* the invocation's log of calls, deliveries and returns
    held     \* the sequence GetOrder() returned to the running HandleMiddleware

regvars == <<order, items>>

runvars == <<ctl, stack, trace>>

vars == <<order, items, last, ctl, stack, trace, held>>

\* the registry value the operations work on
Reg == [order |-> order, items |-> items]

EmptyReg == [order |-> <<>>, items |-> <<>>]

(* ------------------------------------------------------------------ *)
(* orderedIDs: the ordered identifier registry                          *)
(* ------------------------------------------------------------------ *)

\* existence of an identifier, read from the index of identifiers
Has(reg, id) == id \in DOMAIN reg.items

IndexOf(reg, id) == CHOOSE i \in 1..Len(reg.order) : reg.order[i] = id

\* GetOrder(): the entries in sequence order, as a value of its own
GetOrderOf(reg) == [i \in 1..Len(reg.order) |-> reg.items[reg.order[i]]]

InsertAt(s, i, x) == SubSeq(s, 1, i - 1) \o <<x>> \o SubSeq(s, i, Len(s))

RemoveAt(s, i) == SubSeq(s, 1, i - 1) \o SubSeq(s, i + 1, Len(s))

WithItem(its, id, m) == [k \in (DOMAIN its) \cup {id} |-> IF k = id THEN m ELSE its[k]]

WithoutItem(its, id) == [k \in (DOMAIN its) \ {id} |-> its[k]]

Failed(reg, e) == [reg |-> reg, err |-> e, removed |-> NoEntry]

Done(reg) == [reg |-> reg, err |-> NoErr, removed |-> NoEntry]

\* Add without the existence check
orderedIDs_Add_Dup(reg, m, pos) ==
    Done([order |-> IF pos = "Before" THEN <<m.id>> \o reg.order
                    ELSE Append(reg.order, m.id),
          items |-> WithItem(reg.items, m.id, m)])

orderedIDs_Add(reg, m, pos) ==
    IF Has(reg, m.id) THEN Failed(reg, "DuplicateID")
    ELSE Done([order |-> IF pos = "Before" THEN <<m.id>> \o reg.order
                         ELSE Append(reg.order, m.id),
               items |-> WithItem(reg.items, m.id, m)])

\* the errors Insert may report: both checks are made, in either order
InsertErrs(reg, m, anchor) ==
    (IF Has(reg, m.id) THEN {"DuplicateID"} ELSE {})
    \cup (IF ~Has(reg, anchor) THEN {"AnchorNotFound"} ELSE {})

\* Insert that has already appended the entry when the anchor lookup fails
orderedIDs_Insert_Partial(reg, m, anchor, pos, e) ==
    IF e = "AnchorNotFound"
    THEN [reg |-> [order |-> Append(reg.order, m.id),
                   items |-> WithItem(reg.items, m.id, m)],
          err |-> e, removed |-> NoEntry]
    ELSE IF e # NoErr THEN Failed(reg, e)
    ELSE LET i == IndexOf(reg, anchor)
         IN Done([order |-> InsertAt(reg.order, IF pos = "Before" THEN i ELSE i + 1, m.id),
                  items |-> WithItem(reg.items, m.id, m)])

orderedIDs_Insert(reg, m, anchor, pos, e) ==
    IF e # NoErr THEN Failed(reg, e)
    ELSE LET i == IndexOf(reg, anchor)
         IN Done([order |-> InsertAt(reg.order, IF pos = "Before" THEN i ELSE i + 1, m.id),
                  items |-> WithItem(reg.items, m.id, m)])

\* Swap without the uniqueness check of the new identifier
orderedIDs_Swap_NoDupCheck(reg, id, m) ==
    IF ~Has(reg, id) THEN Failed(reg, "NotFound")
    ELSE [reg |-> [order |-> [reg.order EXCEPT ![IndexOf(reg, id)] = m.id],
                   items |-> WithItem(WithoutItem(reg.items, id), m.id, m)],
          err |-> NoErr,
          removed |-> reg.items[id]]

orderedIDs_Swap(reg, id, m) ==
    IF ~Has(reg, id) THEN Failed(reg, "NotFound")
    ELSE IF m.id # id /\ Has(reg, m.id) THEN Failed(reg, "DuplicateID")
    ELSE [reg |-> [order |-> [reg.order EXCEPT ![IndexOf(reg, id)] = m.id],
                   items |-> WithItem(WithoutItem(reg.items, id), m.id, m)],
          err |-> NoErr,
          removed |-> reg.items[id]]

\* Remove that takes the identifier out of the sequence and leaves it in
\* the index
orderedIDs_Remove_KeepsIndex(reg, id) ==
    IF ~Has(reg, id) THEN Failed(reg, "NotFound")
    ELSE Done([order |-> RemoveAt(reg.order, IndexOf(reg, id)),
               items |-> reg.items])

orderedIDs_Remove(reg, id) ==
    IF ~Has(reg, id) THEN Failed(reg, "NotFound")
    ELSE Done([order |-> RemoveAt(reg.order, IndexOf(reg, id)),
               items |-> WithoutItem(reg.items, id)])

orderedIDs_Clear(reg) == Done(EmptyReg)

\* a sequence GetOrder() returned earlier, once the registry has become reg:
\* it is a sequence of its own and stays as it was
Returned_After(seq, reg) == seq

(* ------------------------------------------------------------------ *)
(* BuildStep: the registry operations of the step                       *)
(* ------------------------------------------------------------------ *)

\* Add that does not pass its position on
BuildStep_Add_IgnoresPos(reg, m, pos) == orderedIDs_Add(reg, m, "After")

BuildStep_Add(reg, m, pos) == orderedIDs_Add(reg, m, pos)

\* Insert that does not pass its position on
BuildStep_Insert_IgnoresPos(reg, m, relativeTo, pos, e) ==
    orderedIDs_Insert(reg, m, relativeTo, "Before", e)

BuildStep_Insert(reg, m, relativeTo, pos, e) == orderedIDs_Insert(reg, m, relativeTo, pos, e)

\* what a call that panics leaves in place of a middleware
Panicked == [id |-> NoID, v |-> -1]

\* x.(BuildMiddleware): x itself when it is a BuildMiddleware, a panic when
\* it is nil or anything else
AssertBuildMiddleware(x) == IF x \in Entries THEN x ELSE Panicked

\* Swap that returns the middleware it was given
BuildStep_Swap_ReturnsNew(reg, id, m) ==
    LET res == orderedIDs_Swap(reg, id, m)
    IN IF res.err # NoErr
       THEN [reg |-> res.reg, err |-> res.err, removed |-> NoEntry]
       ELSE [reg |-> res.reg, err |-> NoErr, removed |-> m]

\* Swap that asserts the type of what the registry returned before it looks
\* at the error
BuildStep_Swap_AssertsFirst(reg, id, m) ==
    LET res == orderedIDs_Swap(reg, id, m)
    IN [reg |-> res.reg, err |-> res.err, removed |-> AssertBuildMiddleware(res.removed)]

BuildStep_Swap(reg, id, m) ==
    LET res == orderedIDs_Swap(reg, id, m)
    IN IF res.err # NoErr
       THEN [reg |-> res.reg, err |-> res.err, removed |-> NoEntry]
       ELSE [reg |-> res.reg, err |-> NoErr, removed |-> AssertBuildMiddleware(res.removed)]

\* Remove that drops the registry's error
BuildStep_Remove_DropsErr(reg, id) == [orderedIDs_Remove(reg, id) EXCEPT !.err = NoErr]

BuildStep_Remove(reg, id) == orderedIDs_Remove(reg, id)

\* Clear that does not reach the registry
BuildStep_Clear_Noop(reg) == Done(reg)

BuildStep_Clear(reg) == orderedIDs_Clear(reg)

\* the record kept of a registry call
Called(op, m, id, pos, res) ==
    [op |-> op, m |-> m, id |-> id, pos |-> pos,
     err |-> res.err, removed |-> res.removed, before |-> GetOrderOf(Reg)]

NoCall ==
    [op |-> "none", m |-> NoEntry, id |-> NoID, pos |-> "none",
     err |-> NoErr, removed |-> NoEntry, before |-> <<>>]

Commit(op, m, id, pos, res) ==
    /\ order' = res.reg.order
    /\ items' = res.reg.items
    /\ last' = Called(op, m, id, pos, res)
    /\ held' = Returned_After(held, res.reg)
    /\ UNCHANGED runvars

Add(m, pos) == Commit("Add", m, NoID, pos, BuildStep_Add(Reg, m, pos))

Insert(m, relativeTo, pos) ==
    \E e \in (IF InsertErrs(Reg, m, relativeTo) = {} THEN {NoErr}
              ELSE InsertErrs(Reg, m, relativeTo)) :
        Commit("Insert", m, relativeTo, pos, BuildStep_Insert(Reg, m, relativeTo, pos, e))

Swap(id, m) == Commit("Swap", m, id, "none", BuildStep_Swap(Reg, id, m))

Remove(id) == Commit("Remove", NoEntry, id, "none", BuildStep_Remove(Reg, id))

Clear == Commit("Clear", NoEntry, NoID, "none", BuildStep_Clear(Reg))

Idle == ctl.mode = "idle"

(* ------------------------------------------------------------------ *)
(* Values passed along a chain                                          *)
(* ------------------------------------------------------------------ *)

Nil == "nil"

\* the input the caller hands to the composed handler
Inputs == {"x"}

\* a BuildInput whose Request is left unset
BuildInput_Unset(req) == [Request |-> Nil]

BuildInput(req) == [Request |-> req]

BuildOutput(res) == [Result |-> res]

\* BuildOutput{}
ZeroBuildOutput == BuildOutput(Nil)

\* a value in the shape of its layer: as it is for Handler / Middleware,
\* inside BuildOutput for BuildHandler / BuildMiddleware
OutputOf(layer, v) == IF layer = "b" THEN BuildOutput(v) ELSE v

(* ------------------------------------------------------------------ *)
(* Handlers and middleware                                              *)
(* ------------------------------------------------------------------ *)

\* the handler the chain is composed around
Terminal == [kind |-> "terminal"]

\* a generic middleware, known by its ID()
Generic(i) == [kind |-> "generic", id |-> i]

\* the Build step used as a middleware of an outer chain
StepMw == [kind |-> "step", id |-> NoID]

\* the middleware lists a caller composes
OuterLists ==
    { <<>>, <<StepMw>>, <<Generic(1), Generic(2)>>,
      <<Generic(1), StepMw>>, <<StepMw, Generic(1)>> }

decoratedHandler(next, with) == [kind |-> "decorated", Next |-> next, With |-> with]

RECURSIVE DecorateFrom(_, _, _)
DecorateFrom(h, with, i) ==
    IF i >= 1 THEN DecorateFrom(decoratedHandler(h, with[i]), with, i - 1) ELSE h

RECURSIVE DecorateUpTo(_, _, _)
DecorateUpTo(h, with, i) ==
    IF i <= Len(with) THEN DecorateUpTo(decoratedHandler(h, with[i]), with, i + 1) ELSE h

\* DecorateHandler with the loop running from the first middleware to the last
DecorateHandler_Forward(h, with) == DecorateUpTo(h, with, 1)

\* DecorateHandler with the loop stopping short of the first middleware
DecorateHandler_SkipsFirst(h, with) ==
    IF with = <<>> THEN h ELSE DecorateFrom(h, with, Len(with)).Next

DecorateHandler(h, with) == DecorateFrom(h, with, Len(with))

buildWrapHandler(next) == [kind |-> "buildWrap", Next |-> next]

decoratedBuildHandler(next, with) == [kind |-> "decoratedBuild", Next |-> next, With |-> with]

RECURSIVE BuildDecorateFrom(_, _, _)
BuildDecorateFrom(h, ord, i) ==
    IF i >= 1
    THEN BuildDecorateFrom(decoratedBuildHandler(h, AssertBuildMiddleware(ord[i])), ord, i - 1)
    ELSE h

RECURSIVE BuildDecorateUpTo(_, _, _)
BuildDecorateUpTo(h, ord, i) ==
    IF i <= Len(ord)
    THEN BuildDecorateUpTo(decoratedBuildHandler(h, AssertBuildMiddleware(ord[i])), ord, i + 1)
    ELSE h

\* the chain built with the loop running from the first entry to the last
BuildStep_Chain_Forward(ord, next) == BuildDecorateUpTo(buildWrapHandler(next), ord, 1)

\* the handler HandleMiddleware builds over the order it read
BuildStep_Chain(ord, next) == BuildDecorateFrom(buildWrapHandler(next), ord, Len(ord))

(* ------------------------------------------------------------------ *)
(* What a middleware or the terminal handler may do                     *)
(* ------------------------------------------------------------------ *)

\* pass: call next and return what it returned; mutIn: the same with a
\* changed input; recover: call next and answer an error with a result of its
\* own; short, fail, failOut: return without calling next
Behs == {"pass", "mutIn", "recover", "short", "fail", "failOut"}

Delegates(beh) == beh \in {"pass", "mutIn", "recover"}

TermBehs == {"ok", "fail"}

Result(out, err) == [out |-> out, err |-> err]

\* the input a delegating middleware passes to next
MwPasses(layer, beh, in) ==
    IF beh = "mutIn"
    THEN (IF layer = "b" THEN [in EXCEPT !.Request = "y"] ELSE "y")
    ELSE in

\* what a middleware returns when it does not call next
MwShort(layer, beh) ==
    CASE beh = "short" -> Result(OutputOf(layer, "s"), Nil)
      [] beh = "fail" -> Result(OutputOf(layer, Nil), "eM")
      [] beh = "failOut" -> Result(OutputOf(layer, "s"), "eM")

\* what a delegating middleware returns once next has returned got
MwAfter(layer, beh, got) ==
    IF beh = "recover" /\ got.err # Nil
    THEN Result(OutputOf(layer, "f"), Nil)
    ELSE got

TerminalReturns(tb) == IF tb = "ok" THEN Result("r", Nil) ELSE Result(Nil, "eT")

(* ------------------------------------------------------------------ *)
(* One invocation: control, call stack and log                          *)
(* ------------------------------------------------------------------ *)

Calling(h, in) == [mode |-> "call", h |-> h, in |-> in]

Returning(r) == [mode |-> "ret", out |-> r.out, err |-> r.err]

WhoGeneric(mw) == [layer |-> "g", id |-> mw.id, v |-> 0]

WhoBuild(e) == [layer |-> "b", id |-> e.id, v |-> e.v]

WhoTerminal == [layer |-> "t", id |-> NoID, v |-> 0]

WhoStep == [layer |-> "s", id |-> NoID, v |-> 0]

WhoWrap == [layer |-> "w", id |-> NoID, v |-> 0]

Frame(who, beh) == [who |-> who, beh |-> beh]

NoGot == Result(Nil, Nil)

CallEv(who, beh, req) == [ev |-> "call", who |-> who, beh |-> beh, in |-> req]

RetEv(who, beh, called, got, r) ==
    [ev |-> "ret", who |-> who, beh |-> beh, called |-> called,
     got |-> got, out |-> r.out, err |-> r.err]

Run(c, st, tr) == [ctl |-> c, stack |-> st, trace |-> tr]

Top == stack[Len(stack)]

Pop == SubSeq(stack, 1, Len(stack) - 1)

\* the activation of a middleware with its input and its next handler: it
\* either calls next or returns
Activate(layer, who, beh, in, req, next, st, tr) ==
    IF Delegates(beh)
    THEN Run(Calling(next, MwPasses(layer, beh, in)),
             Append(st, Frame(who, beh)),
             Append(tr, CallEv(who, beh, req)))
    ELSE Run(Returning(MwShort(layer, beh)),
             st,
             tr \o <<CallEv(who, beh, req),
                     RetEv(who, beh, FALSE, NoGot, MwShort(layer, beh))>>)

\* Handle that calls Next itself once the middleware has returned
decoratedHandler_Handle_CallsNext(h, in, beh, st, tr) ==
    IF Delegates(beh)
    THEN Activate("g", WhoGeneric(h.With), beh, in, in, h.Next, st, tr)
    ELSE Run(Calling(h.Next, in),
             st,
             tr \o <<CallEv(WhoGeneric(h.With), beh, in),
                     RetEv(WhoGeneric(h.With), beh, FALSE, NoGot, MwShort("g", beh))>>)

\* decoratedHandler.Handle: the middleware's HandleMiddleware with the input
\* and Next, its result returned as it is
decoratedHandler_Handle(h, in, beh, st, tr) ==
    Activate("g", WhoGeneric(h.With), beh, in, in, h.Next, st, tr)

\* HandleBuild that looks its middleware up in the registry by identifier
decoratedBuildHandler_HandleBuild_Live(h, in, beh, st, tr) ==
    Activate("b",
             WhoBuild(IF h.With.id \in DOMAIN items THEN items[h.With.id] ELSE h.With),
             beh, in, in.Request, h.Next, st, tr)

\* decoratedBuildHandler.HandleBuild: the middleware's HandleBuild with the
\* input and Next, its result returned as it is
decoratedBuildHandler_HandleBuild(h, in, beh, st, tr) ==
    Activate("b", WhoBuild(h.With), beh, in, in.Request, h.Next, st, tr)

\* BuildStep.HandleMiddleware up to its call of the chain: reads the order,
\* decorates the wrapped next handler, wraps the input
BuildStep_HandleMiddleware(reg, in, next, st, tr) ==
    LET ord == GetOrderOf(reg)
    IN Run(Calling(BuildStep_Chain(ord, next), BuildInput(in)),
           Append(st, Frame(WhoStep, "glue")),
           Append(tr, [ev |-> "step", order |-> ord]))

\* HandleMiddleware that returns the chain's result next to its error
BuildStep_Returns_KeepsOutput(res, err) == Result(res.Result, err)

\* HandleMiddleware that returns the result whatever the error
BuildStep_Returns_Swallows(res, err) == Result(res.Result, Nil)

\* BuildStep.HandleMiddleware after the chain returned
BuildStep_Returns(res, err) ==
    IF err # Nil THEN Result(Nil, err) ELSE Result(res.Result, Nil)

\* HandleBuild that returns without calling the generic handler
buildWrapHandler_HandleBuild_Skips(h, in, st, tr) ==
    Run(Returning(Result(ZeroBuildOutput, Nil)), st, tr)

\* buildWrapHandler.HandleBuild up to its call of the generic handler
buildWrapHandler_HandleBuild(h, in, st, tr) ==
    Run(Calling(h.Next, in.Request), Append(st, Frame(WhoWrap, "glue")), tr)

\* HandleBuild that returns an empty BuildOutput whatever the generic handler
\* returned
buildWrapHandler_Returns_DropsResult(res, err) == Result(ZeroBuildOutput, err)

\* buildWrapHandler.HandleBuild after the generic handler returned
buildWrapHandler_Returns(res, err) ==
    IF err # Nil THEN Result(ZeroBuildOutput, err) ELSE Result(BuildOutput(res), Nil)

Proceed(r) ==
    /\ ctl' = r.ctl
    /\ stack' = r.stack
    /\ trace' = r.trace
    /\ UNCHANGED <<order, items, last>>

Become(r) == Proceed(r) /\ UNCHANGED held

\* the start of an invocation: the handler to call with input x, the log
\* telling the middleware composed, outer of them in the outer composition
Start(c, with, outer, via) ==
    /\ Idle
    /\ ctl' = c
    /\ stack' = <<>>
    /\ trace' = <<[ev |-> "invoke", with |-> with, in |-> c.in, outer |-> outer, via |-> via]>>
    /\ last' = NoCall
    /\ UNCHANGED <<order, items, held>>

\* the caller composes a handler over a middleware list and invokes it
Invoke(x, with) ==
    Start(Calling(DecorateHandler(Terminal, with), x), with, Len(with), "flat")

\* the caller composes a handler over list b, composes a handler over list a
\* around that one, and invokes it
InvokeNested(x, a, b) ==
    Start(Calling(DecorateHandler(DecorateHandler(Terminal, b), a), x),
          a \o b, Len(a), "nested")

\* Middlewares.HandleMiddleware: decorates next with the list and calls it
Middlewares_HandleMiddleware(ms, in, next) == Calling(DecorateHandler(next, ms), in)

\* the caller calls HandleMiddleware of a middleware list with a next handler
InvokeMiddlewares(x, ms) ==
    Start(Middlewares_HandleMiddleware(ms, x, Terminal), ms, Len(ms), "list")

HandleTerminal(tb) ==
    /\ ctl.mode = "call"
    /\ ctl.h.kind = "terminal"
    /\ Become(Run(Returning(TerminalReturns(tb)),
                  stack,
                  trace \o <<CallEv(WhoTerminal, tb, ctl.in),
                             RetEv(WhoTerminal, tb, FALSE, NoGot, TerminalReturns(tb))>>))

HandleDecorated(beh) ==
    /\ ctl.mode = "call"
    /\ ctl.h.kind = "decorated"
    /\ ctl.h.With.kind = "generic"
    /\ Become(decoratedHandler_Handle(ctl.h, ctl.in, beh, stack, trace))

HandleStep ==
    /\ ctl.mode = "call"
    /\ ctl.h.kind = "decorated"
    /\ ctl.h.With.kind = "step"
    /\ Proceed(BuildStep_HandleMiddleware(Reg, ctl.in, ctl.h.Next, stack, trace))
    /\ held' = GetOrderOf(Reg)

HandleDecoratedBuild(beh) ==
    /\ ctl.mode = "call"
    /\ ctl.h.kind = "decoratedBuild"
    /\ Become(decoratedBuildHandler_HandleBuild(ctl.h, ctl.in, beh, stack, trace))

HandleBuildWrap ==
    /\ ctl.mode = "call"
    /\ ctl.h.kind = "buildWrap"
    /\ Become(buildWrapHandler_HandleBuild(ctl.h, ctl.in, stack, trace))

\* next returns to the middleware that called it, which returns in its turn
MiddlewareReturns ==
    /\ ctl.mode = "ret"
    /\ stack # <<>>
    /\ Top.who.layer \in {"g", "b"}
    /\ LET got == Result(ctl.out, ctl.err)
           r == MwAfter(Top.who.layer, Top.beh, got)
       IN Become(Run(Returning(r), Pop,
                     Append(trace, RetEv(Top.who, Top.beh, TRUE, got, r))))

WrapReturns ==
    /\ ctl.mode = "ret"
    /\ stack # <<>>
    /\ Top.who.layer = "w"
    /\ LET got == Result(ctl.out, ctl.err)
           r == buildWrapHandler_Returns(ctl.out, ctl.err)
       IN Become(Run(Returning(r), Pop,
                     Append(trace, RetEv(Top.who, Top.beh, TRUE, got, r))))

StepReturns ==
    /\ ctl.mode = "ret"
    /\ stack # <<>>
    /\ Top.who.layer = "s"
    /\ LET got == Result(ctl.out, ctl.err)
           r == BuildStep_Returns(ctl.out, ctl.err)
       IN Proceed(Run(Returning(r), Pop,
                      Append(trace, RetEv(Top.who, Top.beh, TRUE, got, r))))
    /\ held' = <<>>

\* the composed handler returns to its caller
Finish ==
    /\ ctl.mode = "ret"
    /\ stack = <<>>
    /\ Become(Run([mode |-> "done", out |-> ctl.out, err |-> ctl.err], stack, trace))

\* the caller is through with the result
Forget ==
    /\ ctl.mode = "done"
    /\ Become(Run([mode |-> "idle"], <<>>, <<>>))

Init ==
    /\ order = <<>>
    /\ items = <<>>
    /\ last = NoCall
    /\ ctl = [mode |-> "idle"]
    /\ stack = <<>>
    /\ trace = <<>>
    /\ held = <<>>

NextRegistry ==
    \/ \E m \in Entries, pos \in Positions : Idle /\ Add(m, pos)
    \/ \E m \in Entries, a \in IDs, pos \in Positions : Idle /\ Insert(m, a, pos)
    \/ \E id \in IDs, m \in Entries : Idle /\ Swap(id, m)
    \/ \E id \in IDs : Idle /\ Remove(id)
    \/ Idle /\ Clear

SpecRegistry == Init /\ [][NextRegistry]_vars

NextRun ==
    \/ \E x \in Inputs, with \in OuterLists : Invoke(x, with)
    \/ \E tb \in TermBehs : HandleTerminal(tb)
    \/ \E beh \in Behs : HandleDecorated(beh)
    \/ HandleStep
    \/ \E beh \in Behs : HandleDecoratedBuild(beh)
    \/ HandleBuildWrap
    \/ MiddlewareReturns
    \/ WrapReturns
    \/ StepReturns
    \/ Finish
    \/ Forget

\* one middleware instance per identifier: what a chain does with an entry
\* does not depend on which instance of an identifier it is
OneEach == {m \in Entries : m.v = 1}

\* the registry calls made between invocations
NextConfigure ==
    \/ \E m \in OneEach, pos \in Positions : Idle /\ Add(m, pos)
    \/ \E m \in OneEach, a \in IDs, pos \in Positions : Idle /\ Insert(m, a, pos)
    \/ \E id \in IDs, m \in OneEach : Idle /\ Swap(id, m)
    \/ \E id \in IDs : Idle /\ Remove(id)
    \/ Idle /\ Clear

Next == NextConfigure \/ NextRun

Spec == Init /\ [][Next]_vars

\* the middleware lists and behaviours of the invocations that registry calls
\* are interleaved with
InflightLists == { <<StepMw>>, <<StepMw, Generic(1)>> }

InflightBehs == {"pass", "short"}

\* a registry call may be made while nothing runs, and once while an
\* invocation is under way
MayCall == Idle \/ last.op = "none"

NextInflight ==
    \/ \E m \in Entries, pos \in Positions : MayCall /\ Add(m, pos)
    \/ \E m \in Entries, a \in IDs, pos \in Positions : MayCall /\ Insert(m, a, pos)
    \/ \E id \in IDs, m \in Entries : MayCall /\ Swap(id, m)
    \/ \E id \in IDs : MayCall /\ Remove(id)
    \/ MayCall /\ Clear
    \/ \E x \in Inputs, with \in InflightLists : Invoke(x, with)
    \/ HandleTerminal("ok")
    \/ \E beh \in InflightBehs : HandleDecorated(beh)
    \/ HandleStep
    \/ \E beh \in InflightBehs : HandleDecoratedBuild(beh)
    \/ HandleBuildWrap
    \/ MiddlewareReturns
    \/ WrapReturns
    \/ StepReturns
    \/ Finish
    \/ Forget

SpecInflight == Init /\ [][NextInflight]_vars

\* the middleware lists composed in one piece, in two nested pieces, and
\* through Middlewares
ComposeLists ==
    { <<>>, <<Generic(1)>>, <<Generic(2)>>,
      <<Generic(1), Generic(2)>>, <<Generic(2), Generic(1)>> }

NextCompose ==
    \/ \E x \in Inputs, with \in ComposeLists : Invoke(x, with)
    \/ \E x \in Inputs, a \in ComposeLists, b \in ComposeLists : InvokeNested(x, a, b)
    \/ \E x \in Inputs, ms \in ComposeLists : InvokeMiddlewares(x, ms)
    \/ \E tb \in TermBehs : HandleTerminal(tb)
    \/ \E beh \in Behs : HandleDecorated(beh)
    \/ MiddlewareReturns
    \/ Finish
    \/ Forget

SpecCompose == Init /\ [][NextCompose]_vars

(* ------------------------------------------------------------------ *)
(* Properties of the registry                                           *)
(* ------------------------------------------------------------------ *)

\* GetOrder() of the step's registry, now
GetOrder == GetOrderOf(Reg)

IdAt(seq, id) == {i \in 1..Len(seq) : seq[i].id = id}

Present(seq, id) == IdAt(seq, id) # {}

\* seq with x put in at index k, said without the registry's own helpers
IsInsertionAt(cur, seq, k, x) ==
    /\ Len(cur) = Len(seq) + 1
    /\ k \in 1..Len(cur)
    /\ cur[k] = x
    /\ \A j \in 1..Len(seq) : cur[IF j < k THEN j ELSE j + 1] = seq[j]

\* C1: whatever calls were made, successful or not, the identifiers of the
\* entries GetOrder() returns are pairwise distinct.
C1_DistinctIDs ==
    \A i, j \in 1..Len(GetOrder) : GetOrder[i].id = GetOrder[j].id => i = j

C1_Witness ==
    /\ Len(GetOrder) >= 2
    /\ last.op \in {"Add", "Insert", "Swap"}
    /\ last.err = "DuplicateID"

\* C2: a call that returns an error leaves GetOrder() as it was before the
\* call, whatever the cause, also for an Insert whose anchor is absent while
\* its entry's identifier is present.
C2_FailureIsAtomic == last.err # NoErr => GetOrder = last.before

C2_Witness ==
    /\ last.op = "Insert"
    /\ last.err # NoErr
    /\ Present(last.before, last.m.id)
    /\ ~Present(last.before, last.id)
    /\ Len(last.before) >= 2

C4_AddResult ==
    last.op = "Add" =>
        /\ last.err = "DuplicateID" <=> Present(last.before, last.m.id)
        /\ last.err \in {NoErr, "DuplicateID"}
        /\ (last.err = NoErr /\ last.pos = "Before") => GetOrder = <<last.m>> \o last.before
        /\ (last.err = NoErr /\ last.pos = "After") => GetOrder = last.before \o <<last.m>>

C4_AddBeforeTwice ==
    ( /\ last.op = "Add" /\ last.pos = "Before" /\ last.err = NoErr
      /\ vars' # vars
      /\ last'.op = "Add" /\ last'.pos = "Before" /\ last'.err = NoErr )
    => /\ GetOrder'[1] = last'.m
       /\ GetOrder'[2] = last.m
       /\ SubSeq(GetOrder', 3, Len(GetOrder')) = SubSeq(GetOrder, 2, Len(GetOrder))

\* C4: Add(m, Before) on a registry without m's identifier yields m followed
\* by the previous order, Add(m, After) the previous order followed by m; Add
\* fails with DuplicateID exactly when the identifier is present; two
\* successive Add(.., Before) leave the later entry first, the earlier second.
C4_Add == []C4_AddResult /\ [][C4_AddBeforeTwice]_vars

C4_Witness ==
    /\ last.op = "Add" /\ last.pos = "Before" /\ last.err = NoErr
    /\ Len(last.before) >= 2

C5_InsertResult ==
    (last.op = "Insert" /\ last.err = NoErr) =>
        \E i \in IdAt(last.before, last.id) :
            /\ IsInsertionAt(GetOrder, last.before,
                             IF last.pos = "Before" THEN i ELSE i + 1, last.m)
            /\ GetOrder[IF last.pos = "Before" THEN i + 1 ELSE i].id = last.id

C5_InsertSameAnchorTwice ==
    ( /\ last.op = "Insert" /\ last.err = NoErr
      /\ vars' # vars
      /\ last'.op = "Insert" /\ last'.err = NoErr
      /\ last'.id = last.id /\ last'.pos = last.pos )
    => \E i \in IdAt(GetOrder', last.id) :
           IF last.pos = "After"
           THEN GetOrder'[i + 1] = last'.m /\ GetOrder'[i + 2] = last.m
           ELSE GetOrder'[i - 1] = last'.m /\ GetOrder'[i - 2] = last.m

\* C5: a successful Insert puts the entry directly before (Before) or directly
\* after (After) the anchor and keeps every other entry's relative order; of
\* two successive inserts at the same anchor and position the later entry is
\* the one next to the anchor.
C5_Insert == []C5_InsertResult /\ [][C5_InsertSameAnchorTwice]_vars

C5_Witness ==
    /\ last.op = "Insert" /\ last.err = NoErr /\ last.pos = "After"
    /\ Len(last.before) >= 2
    /\ \E i \in IdAt(GetOrder, last.id) : i + 2 <= Len(GetOrder)

\* C6: a successful Swap(id, e) returns the entry that was registered under
\* id, puts e at that entry's index, changes no other index nor the length,
\* and leaves no entry called id when e is called otherwise; Swap of an
\* absent id fails with NotFound.
C6_Swap ==
    last.op = "Swap" =>
        /\ ~Present(last.before, last.id) => last.err = "NotFound"
        /\ last.err = NoErr =>
              \E i \in IdAt(last.before, last.id) :
                  /\ last.removed = last.before[i]
                  /\ Len(GetOrder) = Len(last.before)
                  /\ GetOrder[i] = last.m
                  /\ \A j \in 1..Len(last.before) : j # i => GetOrder[j] = last.before[j]
                  /\ last.m.id # last.id => ~Present(GetOrder, last.id)

C6_Witness ==
    /\ last.op = "Swap" /\ last.err = NoErr
    /\ last.m.id # last.id
    /\ Len(last.before) >= 2
    /\ IdAt(last.before, last.id) = {1}

\* C7: Swap(id, e) with id present and e called like another present entry
\* fails with DuplicateID and changes nothing; with e called id it succeeds.
C7_SwapDuplicate ==
    (last.op = "Swap" /\ Present(last.before, last.id)) =>
        /\ (last.m.id # last.id /\ Present(last.before, last.m.id))
              => (last.err = "DuplicateID" /\ GetOrder = last.before)
        /\ last.m.id = last.id => last.err = NoErr

C7_Witness ==
    /\ last.op = "Swap" /\ last.err = "DuplicateID"
    /\ Present(last.before, last.id)
    /\ last.m.id # last.id
    /\ Len(last.before) >= 2

\* C8: a successful Remove(id) takes out the one entry called id and keeps
\* the others in their order; Remove of an absent id fails with NotFound and
\* GetOrder() is the same before and after.
C8_Remove ==
    last.op = "Remove" =>
        /\ ~Present(last.before, last.id) => (last.err = "NotFound" /\ GetOrder = last.before)
        /\ Present(last.before, last.id) =>
              /\ last.err = NoErr
              /\ \E i \in IdAt(last.before, last.id) :
                     IsInsertionAt(last.before, GetOrder, i, last.before[i])
              /\ ~Present(GetOrder, last.id)

C8_Witness ==
    /\ last.op = "Remove" /\ last.err = NoErr
    /\ Len(last.before) >= 3
    /\ IdAt(last.before, last.id) = {2}

(* ------------------------------------------------------------------ *)
(* Properties of an invocation                                          *)
(* ------------------------------------------------------------------ *)

IsCall(e) == e.ev = "call"

IsRet(e) == e.ev = "ret"

IsMiddleware(who) == who.layer \in {"g", "b"}

\* the callees of the invocation so far, in the order they were called
Callees == LET cs == SelectSeq(trace, IsCall) IN [i \in 1..Len(cs) |-> cs[i].who]

\* the middleware list the invocation was composed over
Composed == trace[1].with

RECURSIVE Flattened(_, _)
\* the middleware of a list in order, the step standing for the entries of ord
Flattened(with, ord) ==
    IF with = <<>> THEN <<>>
    ELSE (IF Head(with).kind = "step"
          THEN [i \in 1..Len(ord) |-> WhoBuild(ord[i])]
          ELSE <<WhoGeneric(Head(with))>>)
         \o Flattened(Tail(with), ord)

EveryoneDelegates ==
    \A i \in 1..Len(trace) :
        (IsCall(trace[i]) /\ IsMiddleware(trace[i].who)) => Delegates(trace[i].beh)

\* C3: when every middleware calls next once, one invocation of the composed
\* handler calls the middleware of the list in list order, the Build step's
\* in registry order, and then the terminal handler, each exactly once.
C3_CallOrder ==
    (ctl.mode = "done" /\ EveryoneDelegates)
        => Callees = Flattened(Composed, GetOrder) \o <<WhoTerminal>>

C3_Witness ==
    /\ ctl.mode = "done"
    /\ EveryoneDelegates
    /\ Composed = <<Generic(1), StepMw>>
    /\ Len(GetOrder) >= 3

\* a middleware returned without calling next
Stopped(e) == IsRet(e) /\ IsMiddleware(e.who) /\ ~e.called

\* C9: once a middleware has returned without calling next, no later
\* middleware and no terminal handler is called in that invocation, and what
\* it returned is what the link before it receives from its next call (the
\* caller, when there is no link before it).
C9_ShortCircuit ==
    \A i \in 1..Len(trace) :
        Stopped(trace[i]) =>
            /\ \A j \in 1..Len(trace) : IsCall(trace[j]) =>
                   (j < i /\ trace[j].who.layer # "t")
            /\ Callees = SubSeq(Flattened(Composed, GetOrder), 1, Len(Callees))
            /\ i < Len(trace) =>
                   /\ IsRet(trace[i + 1]) /\ trace[i + 1].called
                   /\ trace[i + 1].got = Result(trace[i].out, trace[i].err)
            /\ (i = Len(trace) /\ ctl.mode \in {"ret", "done"}) =>
                   (ctl.out = trace[i].out /\ ctl.err = trace[i].err)

C9_Witness ==
    /\ ctl.mode = "done"
    /\ Composed = <<StepMw>>
    /\ Len(GetOrder) >= 3
    /\ \E i \in 1..Len(trace) :
           /\ Stopped(trace[i])
           /\ trace[i].who = WhoBuild(GetOrder[2])
           /\ trace[i].beh = "short"

\* a middleware or the terminal handler returned an error of its own
Raised(e) == IsRet(e) /\ ~e.called /\ e.err # Nil

\* no middleware that returns after index i answers the error itself
NobodyRecoversAfter(i) ==
    \A j \in (i + 1)..Len(trace) : IsRet(trace[j]) => trace[j].beh # "recover"

\* C10: an error returned by a middleware or by the terminal handler reaches
\* the caller of the composed handler as the same value, through every link
\* on the way, and nothing is called again because of it; a middleware that
\* answers the error itself is the one exception, and no part of the chain's
\* own code does.
C10_ErrorPropagates ==
    \A i \in 1..Len(trace) :
        (Raised(trace[i]) /\ NobodyRecoversAfter(i)) =>
            /\ \A j \in (i + 1)..Len(trace) :
                   IsRet(trace[j]) /\ trace[j].called /\ trace[j].err = trace[i].err
            /\ ctl.mode \in {"ret", "done"} /\ ctl.err = trace[i].err

C10_Witness ==
    /\ ctl.mode = "done"
    /\ ctl.err = "eT"
    /\ Composed = <<Generic(1), StepMw>>
    /\ Len(GetOrder) >= 2
    /\ \E i \in 1..Len(trace) : Raised(trace[i]) /\ trace[i].who = WhoTerminal

(* ------------------------------------------------------------------ *)
(* Properties of an invocation while the registry changes               *)
(* ------------------------------------------------------------------ *)

IsStep(e) == e.ev = "step"

HasStep == \E i \in 1..Len(trace) : IsStep(trace[i])

\* the order the invocation's HandleMiddleware read when it built its chain
StepOrder == trace[CHOOSE i \in 1..Len(trace) : IsStep(trace[i])].order

StepRunning == \E i \in 1..Len(stack) : stack[i].who = WhoStep

C11_ChainFollowsSnapshot ==
    /\ HasStep =>
          \E n \in 0..Len(Flattened(Composed, StepOrder)) + 1 :
              Callees = SubSeq(Flattened(Composed, StepOrder) \o <<WhoTerminal>>, 1, n)
    /\ (ctl.mode = "done" /\ HasStep /\ EveryoneDelegates) =>
          Callees = Flattened(Composed, StepOrder) \o <<WhoTerminal>>
    /\ StepRunning => held = StepOrder

C11_SnapshotIsRegistry ==
    (Len(trace') = Len(trace) + 1 /\ IsStep(trace'[Len(trace')]))
        => trace'[Len(trace')].order = GetOrder

C11_SnapshotStays ==
    (StepRunning /\ StepRunning') => held' = held

\* C11: an invocation calls the middleware of the registry order as it was
\* when HandleMiddleware built the chain, in that order, whatever registry
\* call is made afterwards; the sequence GetOrder() returned to it is not
\* changed by such a call.
C11_SnapshotIsolation ==
    /\ []C11_ChainFollowsSnapshot
    /\ [][C11_SnapshotIsRegistry]_vars
    /\ [][C11_SnapshotStays]_vars

C11_Witness ==
    /\ ctl.mode = "done"
    /\ HasStep
    /\ EveryoneDelegates
    /\ Len(StepOrder) >= 2
    /\ last.op = "Swap" /\ last.err = NoErr
    /\ last.before = StepOrder
    /\ GetOrder # StepOrder
    /\ Len(Callees) = Len(StepOrder) + 1

(* ------------------------------------------------------------------ *)
(* Properties of the values passed down and up a chain                  *)
(* ------------------------------------------------------------------ *)

\* the calls of the invocation so far, in the order they were made
Calls == SelectSeq(trace, IsCall)

TerminalCalls == LET cs == Calls IN {i \in 1..Len(cs) : cs[i].who = WhoTerminal}

\* the request a called middleware hands to next, given the request it got
PassedOn(e) == IF e.beh = "mutIn" THEN "y" ELSE e.in

StageOf(ord) == [i \in 1..Len(ord) |-> WhoBuild(ord[i])]

C12_AtMostOnce ==
    (trace # <<>> /\ Composed = <<StepMw>>) => Cardinality(TerminalCalls) <= 1

C12_WholeStageThenNext ==
    (ctl.mode = "done" /\ Composed = <<StepMw>> /\ EveryoneDelegates) =>
        LET cs == Calls
        IN /\ Callees = StageOf(StepOrder) \o <<WhoTerminal>>
           /\ TerminalCalls = {Len(cs)}
           /\ cs[Len(cs)].in =
                  IF StepOrder = <<>> THEN trace[1].in
                  ELSE PassedOn(cs[Len(cs) - 1])

\* C12: with the Build step as the one middleware of an outer chain and
\* every step middleware calling next once, an invocation calls the step's
\* middleware in registry order and then the outer next handler exactly once,
\* with the request as the last step middleware passed it on; the outer next
\* handler is never called a second time.
C12_StageAsOneStep == C12_AtMostOnce /\ C12_WholeStageThenNext

C12_Witness ==
    /\ ctl.mode = "done"
    /\ Composed = <<StepMw>>
    /\ EveryoneDelegates
    /\ Len(StepOrder) >= 2
    /\ Calls[Len(Calls) - 1].beh = "mutIn"
    /\ Calls[Len(Calls)].who = WhoTerminal
    /\ Calls[Len(Calls)].in = "y"

\* the index of the first call whose middleware changes the request, past
\* the last call when none does
FirstChange ==
    LET cs == Calls
    IN IF \E i \in 1..Len(cs) : cs[i].beh = "mutIn"
       THEN CHOOSE i \in 1..Len(cs) :
                /\ cs[i].beh = "mutIn"
                /\ \A j \in 1..(i - 1) : cs[j].beh # "mutIn"
       ELSE Len(cs)

\* C13: every link observes the request the link before it passed on, the
\* first one the caller's; so the links up to the first middleware that
\* changes the request, the terminal handler when none does, observe the
\* caller's request, and the links after a change observe the changed one.
C13_InputFlows ==
    trace # <<>> =>
        LET cs == Calls
            first == FirstChange
        IN /\ \A k \in 1..Len(cs) :
                  cs[k].in = IF k = 1 THEN trace[1].in ELSE PassedOn(cs[k - 1])
           /\ \A k \in 1..first : cs[k].in = trace[1].in
           /\ \A k \in (first + 1)..Len(cs) : cs[k].in = "y"

C13_Witness ==
    /\ ctl.mode = "done"
    /\ Composed = <<Generic(1), StepMw>>
    /\ HasStep
    /\ Len(StepOrder) >= 2
    /\ Len(Calls) = Len(StepOrder) + 2
    /\ FirstChange = 2
    /\ Calls[1].in = "x"
    /\ Calls[2].in = "x"
    /\ Calls[3].in = "y"
    /\ Calls[Len(Calls)].who = WhoTerminal
    /\ Calls[Len(Calls)].in = "y"

\* HandleMiddleware of the Build step returned
StepReturned(e) == IsRet(e) /\ e.who = WhoStep

\* C14: BuildStep.HandleMiddleware returns the Result field of the
\* BuildOutput its chain produced, with a nil error, when the chain returned
\* no error; when the chain returned an error it returns that error and a nil
\* output, whatever output the chain returned next to the error.
C14_StepReturn ==
    \A i \in 1..Len(trace) :
        StepReturned(trace[i]) =>
            IF trace[i].got.err = Nil
            THEN trace[i].out = trace[i].got.out.Result /\ trace[i].err = Nil
            ELSE trace[i].out = Nil /\ trace[i].err = trace[i].got.err

C14_Witness ==
    /\ ctl.mode = "done"
    /\ HasStep
    /\ Len(StepOrder) >= 2
    /\ \E i \in 1..Len(trace) :
           /\ StepReturned(trace[i])
           /\ trace[i].got = Result(BuildOutput("s"), "eM")
           /\ trace[i].out = Nil
           /\ trace[i].err = "eM"

(* ------------------------------------------------------------------ *)
(* Properties of the registry: emptying and membership                  *)
(* ------------------------------------------------------------------ *)

\* Clear() on the registry as it is now: no error, nothing left
C15_ClearNow ==
    /\ BuildStep_Clear(Reg).err = NoErr
    /\ GetOrderOf(BuildStep_Clear(Reg).reg) = <<>>

\* C15: Clear() returns no error and leaves GetOrder() empty, whatever the
\* registry held; a second Clear() right after it does the same; and right
\* after a Clear() an Add of any entry, in particular of one whose identifier
\* was registered before, succeeds.
C15_Clear ==
    /\ C15_ClearNow
    /\ last.op = "Clear" =>
           /\ last.err = NoErr
           /\ GetOrder = <<>>
           /\ \A m \in Entries, pos \in Positions :
                  /\ BuildStep_Add(Reg, m, pos).err = NoErr
                  /\ GetOrderOf(BuildStep_Add(Reg, m, pos).reg) = <<m>>

C15_Witness ==
    /\ last.op = "Clear"
    /\ last.err = NoErr
    /\ Len(last.before) >= 2
    /\ GetOrder = <<>>
    /\ \E i \in 1..Len(last.before) :
           BuildStep_Add(Reg, last.before[i], "After").err = NoErr

\* the index of identifiers and the sequence hold the same identifiers, and
\* every entry is kept under its own identifier
C16_IndexFollowsOrder ==
    /\ DOMAIN items = {order[i] : i \in 1..Len(order)}
    /\ \A i \in 1..Len(order) : items[order[i]].id = order[i]

\* what each operation would answer now about identifier id
C16_TreatedAsPresent(id) ==
    /\ \A m \in Entries, pos \in Positions :
           m.id = id => BuildStep_Add(Reg, m, pos).err = "DuplicateID"
    /\ \A m \in Entries, a \in IDs :
           m.id = id => "DuplicateID" \in InsertErrs(Reg, m, a)
    /\ \A m \in Entries : "AnchorNotFound" \notin InsertErrs(Reg, m, id)
    /\ BuildStep_Remove(Reg, id).err = NoErr
    /\ \A m \in Entries : BuildStep_Swap(Reg, id, m).err # "NotFound"

C16_TreatedAsAbsent(id) ==
    /\ \A m \in Entries, pos \in Positions :
           m.id = id => BuildStep_Add(Reg, m, pos).err = NoErr
    /\ \A m \in Entries, a \in IDs :
           m.id = id => "DuplicateID" \notin InsertErrs(Reg, m, a)
    /\ \A m \in Entries, pos \in Positions :
           /\ "AnchorNotFound" \in InsertErrs(Reg, m, id)
           /\ \A e \in InsertErrs(Reg, m, id) :
                  BuildStep_Insert(Reg, m, id, pos, e).err # NoErr
    /\ BuildStep_Remove(Reg, id).err = "NotFound"
    /\ \A m \in Entries : BuildStep_Swap(Reg, id, m).err = "NotFound"

\* the latest call took identifier last.id out of the registry
TookOut ==
    /\ last.err = NoErr
    /\ \/ last.op = "Remove"
       \/ last.op = "Swap" /\ last.m.id # last.id

\* C16: after any calls, an identifier is treated as present by Add, Insert,
\* Remove and Swap exactly when an entry with it is in GetOrder(); after a
\* Remove(id), or a Swap(id, e) with another identifier, id is absent: it can
\* be added again and is not found as an anchor.
C16_MembershipAgrees ==
    /\ C16_IndexFollowsOrder
    /\ \A id \in IDs :
           IF Present(GetOrder, id)
           THEN C16_TreatedAsPresent(id)
           ELSE C16_TreatedAsAbsent(id)
    /\ TookOut => ~Present(GetOrder, last.id) /\ C16_TreatedAsAbsent(last.id)

C16_Witness ==
    /\ last.op = "Swap"
    /\ TookOut
    /\ Len(GetOrder) >= 2
    /\ Present(last.before, last.id)
    /\ ~Present(GetOrder, last.id)
    /\ Present(GetOrder, last.m.id)
    /\ \E m \in Entries : m.id = last.id /\ BuildStep_Add(Reg, m, "Before").err = NoErr

\* C17: after any calls of Add, Insert, Swap, Remove and Clear every entry of
\* the registry is a BuildMiddleware, so the type assertion HandleMiddleware
\* makes on each entry of the order and the one Swap makes on the removed
\* entry succeed; a Swap that fails returns a nil middleware and asserts
\* nothing.
C17_EntriesAreBuildMiddleware ==
    /\ \A id \in DOMAIN items : items[id] \in Entries
    /\ \A i \in 1..Len(GetOrder) : AssertBuildMiddleware(GetOrder[i]) = GetOrder[i]
    /\ \A i \in 1..Len(trace) : IsCall(trace[i]) => trace[i].who # WhoBuild(Panicked)
    /\ last.op = "Swap" =>
           IF last.err = NoErr
           THEN last.removed \in Entries
           ELSE last.removed = NoEntry

C17_Witness ==
    /\ last.op = "Swap"
    /\ last.err = "DuplicateID"
    /\ last.removed = NoEntry
    /\ Len(GetOrder) >= 2

\* the returns of the invocation so far, in the order they were made
Returns == SelectSeq(trace, IsRet)

\* a middleware or the terminal handler returned
IsLinkRet(e) == IsRet(e) /\ e.who.layer \in {"g", "b", "t"}

Returners == LET rs == SelectSeq(trace, IsLinkRet) IN [i \in 1..Len(rs) |-> rs[i].who]

Reverse(s) == [i \in 1..Len(s) |-> s[Len(s) + 1 - i]]

\* C18: when every middleware calls next once, the terminal handler returns
\* first and the middleware return after it in the reverse of the order they
\* are registered in; every link receives from its next call what the link
\* after it returned, and the caller receives what the first link returned.
C18_ReturnsUnwind ==
    (ctl.mode = "done" /\ EveryoneDelegates) =>
        /\ Returners = Reverse(Flattened(Composed, GetOrder) \o <<WhoTerminal>>)
        /\ \A i, j \in 1..Len(trace) :
               (IsCall(trace[i]) /\ IsRet(trace[j])) => i < j
        /\ LET rs == Returns
           IN /\ \A k \in 1..(Len(rs) - 1) :
                     /\ rs[k + 1].called
                     /\ rs[k + 1].got = Result(rs[k].out, rs[k].err)
              /\ ctl.out = rs[Len(rs)].out
              /\ ctl.err = rs[Len(rs)].err

C18_Witness ==
    /\ ctl.mode = "done"
    /\ EveryoneDelegates
    /\ Composed = <<Generic(1), StepMw>>
    /\ Len(GetOrder) >= 2
    /\ Returners[1] = WhoTerminal
    /\ Returners[2] = WhoBuild(GetOrder[Len(GetOrder)])
    /\ Returners[Len(Returners)] = WhoGeneric(Generic(1))
    /\ ctl.out = "r"

(* ------------------------------------------------------------------ *)
(* Properties of composition                                            *)
(* ------------------------------------------------------------------ *)

\* the invocation has just started: nothing was called yet
Started == ctl.mode = "call" /\ Len(trace) = 1

\* the handler composed in one piece over the middleware of the invocation
FlatHandler == DecorateHandler(Terminal, Composed)

\* C19: a handler composed over list B and then over list A around it, and
\* HandleMiddleware of a middleware list with a next handler, start as the
\* handler composed in one piece over the same middleware does, so they make
\* the same calls and return the same result: the middleware in list order,
\* then the terminal handler when every middleware calls next.
C19_Flattening ==
    /\ Started => ctl = Calling(FlatHandler, trace[1].in)
    /\ trace # <<>> =>
           Callees = SubSeq(Flattened(Composed, <<>>) \o <<WhoTerminal>>, 1, Len(Callees))
    /\ (ctl.mode = "done" /\ EveryoneDelegates) =>
           Callees = Flattened(Composed, <<>>) \o <<WhoTerminal>>

C19_Witness ==
    /\ ctl.mode = "done"
    /\ EveryoneDelegates
    /\ trace[1].via = "nested"
    /\ trace[1].outer = 1
    /\ Len(Composed) = 3
    /\ Len(Callees) = 4
    /\ ctl.out = "r"

\* the index of the log entry HandleMiddleware of the step made
StepAt == CHOOSE i \in 1..Len(trace) : IsStep(trace[i])

\* the input HandleMiddleware of the step was called with
StepIn ==
    LET before == {i \in 1..StepAt : IsCall(trace[i])}
    IN IF before = {} THEN trace[1].in
       ELSE PassedOn(trace[CHOOSE i \in before : \A j \in before : j <= i])

WrapReturned(e) == IsRet(e) /\ e.who = WhoWrap

C20_EmptyDecorate ==
    /\ (ctl.mode = "call" /\ ctl.h.kind \in {"terminal", "decorated"}) =>
           DecorateHandler(ctl.h, <<>>) = ctl.h
    /\ (Started /\ Composed = <<>>) => ctl.h = Terminal

C20_EmptyStep ==
    (HasStep /\ StepOrder = <<>>) =>
        /\ LET at == StepAt
           IN Len(trace) > at => IsCall(trace[at + 1]) /\ trace[at + 1].in = StepIn
        /\ Cardinality({i \in 1..Len(trace) : WrapReturned(trace[i])}) <= 1
        /\ \A i, j \in 1..Len(trace) :
               (WrapReturned(trace[i]) /\ IsCall(trace[j])) => j < i
        /\ \A i \in 1..Len(trace) :
               StepReturned(trace[i]) =>
                   /\ WrapReturned(trace[i - 1])
                   /\ trace[i - 1].called
                   /\ IF trace[i - 1].got.err = Nil
                      THEN trace[i].out = trace[i - 1].got.out /\ trace[i].err = Nil
                      ELSE trace[i].err = trace[i - 1].got.err

\* C20: DecorateHandler with no middleware returns the handler it was given;
\* HandleMiddleware of a Build step whose registry is empty calls next once,
\* with the input it was given, and returns the output next returned when
\* next returned no error, and the error next returned when it returned one.
C20_EmptyChainTransparent == C20_EmptyDecorate /\ C20_EmptyStep

C20_Witness ==
    /\ ctl.mode = "done"
    /\ Composed = <<StepMw>>
    /\ StepOrder = <<>>
    /\ Len(Calls) = 1
    /\ Calls[1].who = WhoTerminal
    /\ Calls[1].in = "x"
    /\ \E i \in 1..Len(trace) : StepReturned(trace[i]) /\ trace[i].out = "r"
    /\ ctl.out = "r"
    /\ ctl.err = Nil

====
